---- MODULE Spec2Model ----
(***************************************************************************)
(* A state-machine model of the social-profile REST backend               *)
(* (src/src/index.js, src/src/initAdmin.js).                               *)
(*                                                                         *)
(* State: the User and Admin collections, the uploads directory, the set   *)
(* of tokens issued so far, the clock read by Date.now(), and one record   *)
(* per in-flight HTTP request holding the handler's position between two   *)
(* awaits and its local copy of the document it works on.  Every action is *)
(* one stretch of handler code that runs without yielding: the code up to  *)
(* and including one database operation.                                   *)
(*                                                                         *)
(* models/User.js and models/Admin.js are not part of the sources at hand; *)
(* what they decide (unique email / username index, password hashing on    *)
(* save, how save() writes a document) follows the specification and is    *)
(* marked so at each definition.                                           *)
(***************************************************************************)
EXTENDS Integers, Sequences, FiniteSets, TLC

VARIABLES
  users,    \* User collection: _id -> document
  admins,   \* Admin collection: _id -> document
  files,    \* names of the files in the uploads directory
  tokens,   \* tokens issued by the two login endpoints so far
  now,      \* the value Date.now() / new Date() returns
  nextId,   \* source of fresh ObjectIds (shared by both collections)
  reqs,     \* request slot -> request record
  sent,     \* number of requests received so far
  server,   \* position of the server process (index.js)
  script,   \* position of the initAdmin script process (initAdmin.js)
  runs,     \* number of bootstrap runs started so far
  okRuns    \* history: number of bootstrap runs completed without error

vars == <<users, admins, files, tokens, now, nextId, reqs, sent, server, script, runs, okRuns>>

(***************************************************************************)
(* Bounds of the model.                                                    *)
(***************************************************************************)
MaxReq == 2      \* requests in flight at the same time
MaxSent == 3     \* requests received in one behaviour
MaxClock == 2    \* clock values 1..MaxClock
MaxFiles == 2    \* files in one upload request (the route allows 5)
MaxId == 4       \* ObjectIds 1..MaxId are handed out
MaxRuns == 3     \* bootstrap runs (server starts and script runs)

Slots == 1..MaxReq

(***************************************************************************)
(* Input alphabets.                                                        *)
(***************************************************************************)
WellKnownUsername == "admin@gmail.com"
DefaultPassword == "admin"
Emails == {WellKnownUsername, "bob@example.com"}
Passwords == {DefaultPassword, "secret"}
Names == {"Ann", "Bob"}
Platforms == {"twitter", "github"}
Handles == {"a", "b"}
Exts == {".png", ".jpg"}

(***************************************************************************)
(* Password hashing: bcrypt.hash / bcrypt.compare.  A stored password is   *)
(* either a hash of a plaintext or the plaintext itself; compare accepts   *)
(* only a hash of the very plaintext supplied (a stored string that is not *)
(* a bcrypt hash compares false).                                          *)
(***************************************************************************)
Hash(p) == [alg |-> "bcrypt", of |-> p]
Plain(p) == [alg |-> "plain", of |-> p]
Compare(p, stored) == stored.alg = "bcrypt" /\ stored.of = p

(***************************************************************************)
(* Documents.  id 0 stands for null (no document).                         *)
(***************************************************************************)
NoDoc == [id |-> 0, email |-> "", password |-> Plain(""), name |-> "",
          socialHandles |-> <<>>, images |-> <<>>]
NoAdmin == [id |-> 0, username |-> "", password |-> Plain("")]

\* User.findById / Admin.findById
UserById(id) == IF id \in DOMAIN users THEN users[id] ELSE NoDoc
AdminById(id) == IF id \in DOMAIN admins THEN admins[id] ELSE NoAdmin

\* User.findOne({ email }) / Admin.findOne({ username }): the ids that match
UsersByEmail(e) == {i \in DOMAIN users : users[i].email = e}
AdminsByUsername(n) == {i \in DOMAIN admins : admins[i].username = n}

\* user.save() of a loaded document: the document as the handler holds it
\* replaces the stored one (last writer wins, no version check).
SaveUser(doc) == [users EXCEPT ![doc.id] = doc]

\* User.findByIdAndDelete
RemoveUser(id) == [i \in DOMAIN users \ {id} |-> users[i]]

(***************************************************************************)
(* Tokens.  jwt.sign({ id }) binds the _id only.  The fields by and who    *)
(* are history (which endpoint issued the token, and for which record);    *)
(* the gates read id alone.  NoToken stands for a request without a valid  *)
(* Authorization header, on which the gate throws.                         *)
(***************************************************************************)
NoToken == [id |-> 0, by |-> "none", who |-> 0]
SignUser(doc) == [id |-> doc.id, by |-> "user", who |-> doc.id]
SignAdmin(doc) == [id |-> doc.id, by |-> "admin", who |-> doc.id]
Verify(tok) == tok \in tokens

(***************************************************************************)
(* File names, urls and paths.                                             *)
(***************************************************************************)
\* multer filename: Date.now() + path.extname(file.originalname)
Filename(t, ext) == [t |-> t, ext |-> ext]
\* `/uploads/${file.filename}`
Url(name) == <<"uploads", name>>
\* a request path that does not lead into the uploads directory
OutsidePath == <<"tmp", Filename(0, "")>>
\* path.join(__dirname, '..', p) names a file of the uploads directory
InUploads(p) == Len(p) = 2 /\ p[1] = "uploads"
FileOf(p) == p[2]
\* if (fs.existsSync(fullPath)) fs.unlinkSync(fullPath), for each path
Unlink(fs, paths) == fs \ {FileOf(p) : p \in {q \in paths : InUploads(q)}}

Range(s) == {s[i] : i \in 1..Len(s)}
ImageUrls(doc) == {doc.images[i].url : i \in 1..Len(doc.images)}

(***************************************************************************)
(* Social handle upsert of the upload handler.                             *)
(***************************************************************************)
\* socialHandles.findIndex(h => h.platform === platform); 0 stands for -1
FindIndex(hs, p) ==
  IF \E i \in 1..Len(hs) : hs[i].platform = p
  THEN CHOOSE i \in 1..Len(hs) :
         /\ hs[i].platform = p
         /\ \A j \in 1..(i - 1) : hs[j].platform # p
  ELSE 0

UpsertAlwaysPush(hs, p, h, t) ==
  Append(hs, [platform |-> p, handle |-> h, addedAt |-> t])

UpsertMoveToEnd(hs, p, h, t) ==
  Append(SelectSeq(hs, LAMBDA e : e.platform # p),
         [platform |-> p, handle |-> h, addedAt |-> t])

UpsertHandle(hs, p, h, t) ==
  LET i == FindIndex(hs, p)
  IN IF i = 0
     THEN Append(hs, [platform |-> p, handle |-> h, addedAt |-> t])
     ELSE [hs EXCEPT ![i].handle = h, ![i].addedAt = t]

(***************************************************************************)
(* Requests.                                                               *)
(***************************************************************************)
IdleReq ==
  [kind |-> "none", pc |-> "idle", tok |-> NoToken, id |-> 0,
   email |-> "", password |-> "", name |-> "",
   platform |-> "", handle |-> "", exts |-> <<>>, imagePath |-> <<>>,
   user |-> NoDoc,       \* the handler's copy of the document
   newImages |-> <<>>,   \* the images entries built from req.files
   status |-> 0,         \* the HTTP status answered
   loaded |-> NoDoc,     \* history: the document as the handler loaded it
   raced |-> FALSE,      \* history: the stored document had changed since
   dup |-> "",           \* history: where the email was found taken (lookup, save)
   afterBoot |-> FALSE]  \* history: received after a successful bootstrap

\* some bootstrap run has completed without error
BootOk == okRuns > 0

Free(r) == reqs[r].pc \in {"idle", "done"}
\* a request is received while the server listens; it takes the first free slot
Accept(r) ==
  /\ server = "up" /\ sent < MaxSent
  /\ Free(r) /\ \A s \in 1..(r - 1) : ~Free(s)

\* the response is sent: the request body and the handler's locals are gone
Answer(q, status) ==
  [q EXCEPT !.pc = "done", !.status = status, !.user = NoDoc, !.name = "",
            !.handle = "", !.exts = <<>>, !.newImages = <<>>, !.imagePath = <<>>]

\* the sequences of file-name timestamps n files of one request can get
Stamps(n) ==
  {s \in [1..n -> now..MaxClock] : \A i \in 1..(n - 1) : s[i] <= s[i + 1]}

\* the image paths a client may name
KnownPaths ==
  {Url(f) : f \in files} \cup UNION {ImageUrls(users[i]) : i \in DOMAIN users}
    \cup {OutsidePath}

(***************************************************************************)
(* POST /api/users/upload: userAuth, multer, handler.                      *)
(***************************************************************************)
UserGate(r, tok, exts, platform, handle) ==
  /\ Accept(r)
  /\ sent' = sent + 1
  /\ LET user == IF Verify(tok) THEN UserById(tok.id) ELSE NoDoc
         req == [IdleReq EXCEPT !.kind = "upload", !.tok = tok, !.exts = exts,
                                !.platform = platform, !.handle = handle,
                                !.afterBoot = BootOk]
     IN reqs' = [reqs EXCEPT ![r] =
                   IF user.id = 0
                   THEN Answer(req, 401)
                   ELSE [req EXCEPT !.pc = "handler", !.user = user, !.loaded = user]]
  /\ UNCHANGED <<users, admins, files, tokens, now, nextId, server, script, runs, okRuns>>

\* const user = req.user
HandlerDocFresh(r) == IF reqs[r].user.id \in DOMAIN users THEN users[reqs[r].user.id] ELSE reqs[r].user
HandlerDoc(r) == reqs[r].user

\* multer stores the files, then the handler changes its copy of the user
UploadHandler(r, ts) ==
  /\ reqs[r].kind = "upload" /\ reqs[r].pc = "handler"
  /\ LET q == reqs[r]
         n == Len(q.exts)
         names == [i \in 1..n |-> Filename(ts[i], q.exts[i])]
         t == IF n = 0 THEN now ELSE ts[n]
         images == [i \in 1..n |-> [url |-> Url(names[i]), uploadedAt |-> t]]
         user0 == HandlerDoc(r)
         user1 == IF q.platform # "" /\ q.handle # ""
                  THEN [user0 EXCEPT !.socialHandles = UpsertHandle(@, q.platform, q.handle, t)]
                  ELSE user0
         user2 == IF n > 0 THEN [user1 EXCEPT !.images = @ \o images] ELSE user1
     IN /\ files' = files \cup Range(names)
        /\ now' = t
        /\ reqs' = [reqs EXCEPT ![r] = [q EXCEPT !.pc = "save", !.user = user2, !.newImages = images]]
  /\ UNCHANGED <<users, admins, tokens, nextId, sent, server, script, runs, okRuns>>

\* await user.save(); res.status(201) -- or the catch: 400
UploadSave(r) ==
  /\ reqs[r].kind = "upload" /\ reqs[r].pc = "save"
  /\ LET q == reqs[r]
     IN IF q.user.id \in DOMAIN users
        THEN /\ users' = SaveUser(q.user)
             /\ reqs' = [reqs EXCEPT ![r] = Answer([q EXCEPT !.raced = (users[q.user.id] # q.loaded)], 201)]
        ELSE /\ users' = users
             /\ reqs' = [reqs EXCEPT ![r] = Answer(q, 400)]
  /\ UNCHANGED <<admins, files, tokens, now, nextId, sent, server, script, runs, okRuns>>

(***************************************************************************)
(* The Admin routes: auth, then the handler.                               *)
(***************************************************************************)
AdminRoutes == {"listUsers", "deleteUser", "deleteImage", "deleteHandle"}

AdminGateLookupUsers(id) == IF id \in DOMAIN users THEN [id |-> id, username |-> users[id].email, password |-> users[id].password] ELSE NoAdmin
AdminGateLookup(id) == AdminById(id)

AdminGate(r, tok, route, id, platform, imagePath) ==
  /\ Accept(r)
  /\ sent' = sent + 1
  /\ LET admin == IF Verify(tok) THEN AdminGateLookup(tok.id) ELSE NoAdmin
         req == [IdleReq EXCEPT !.kind = route, !.tok = tok, !.id = id,
                                !.platform = platform, !.imagePath = imagePath,
                                !.afterBoot = BootOk]
     IN reqs' = [reqs EXCEPT ![r] =
                   IF admin.id = 0
                   THEN Answer(req, 401)
                   ELSE [req EXCEPT !.pc = "handler"]]
  /\ UNCHANGED <<users, admins, files, tokens, now, nextId, server, script, runs, okRuns>>

\* GET /api/users
ListUsers(r) ==
  /\ reqs[r].kind = "listUsers" /\ reqs[r].pc = "handler"
  /\ reqs' = [reqs EXCEPT ![r] = Answer(@, 200)]
  /\ UNCHANGED <<users, admins, files, tokens, now, nextId, sent, server, script, runs, okRuns>>

\* the unlink loop of DELETE /api/users/:id
UnlinkFirstOnly(fs, doc) ==
  IF Len(doc.images) = 0 THEN fs ELSE Unlink(fs, {doc.images[1].url})
UnlinkImages(fs, doc) == Unlink(fs, ImageUrls(doc))

\* DELETE /api/users/:id : findById, 404, the unlink loop
DeleteUserFind(r) ==
  /\ reqs[r].kind = "deleteUser" /\ reqs[r].pc = "handler"
  /\ LET q == reqs[r]
         user == UserById(q.id)
     IN IF user.id = 0
        THEN /\ files' = files
             /\ reqs' = [reqs EXCEPT ![r] = Answer(q, 404)]
        ELSE /\ files' = UnlinkImages(files, user)
             /\ reqs' = [reqs EXCEPT ![r] = [q EXCEPT !.pc = "delete", !.user = user, !.loaded = user]]
  /\ UNCHANGED <<users, admins, tokens, now, nextId, sent, server, script, runs, okRuns>>

\* await User.findByIdAndDelete(req.params.id); res.json(...)
DeleteUserDelete(r) ==
  /\ reqs[r].kind = "deleteUser" /\ reqs[r].pc = "delete"
  /\ users' = RemoveUser(reqs[r].id)
  /\ reqs' = [reqs EXCEPT ![r] = Answer([@ EXCEPT !.raced = (UserById(reqs[r].id) # reqs[r].loaded)], 200)]
  /\ UNCHANGED <<admins, files, tokens, now, nextId, sent, server, script, runs, okRuns>>

\* DELETE /api/users/:id/images : findById, 404, filter
DeleteImageFind(r) ==
  /\ reqs[r].kind = "deleteImage" /\ reqs[r].pc = "handler"
  /\ LET q == reqs[r]
         user == UserById(q.id)
     IN reqs' = [reqs EXCEPT ![r] =
                   IF user.id = 0
                   THEN Answer(q, 404)
                   ELSE [q EXCEPT !.pc = "save", !.loaded = user,
                           !.user = [user EXCEPT !.images =
                                       SelectSeq(@, LAMBDA img : img.url # q.imagePath)]]]
  /\ UNCHANGED <<users, admins, files, tokens, now, nextId, sent, server, script, runs, okRuns>>

\* await user.save() -- or the catch: 500
DeleteImageSave(r) ==
  /\ reqs[r].kind = "deleteImage" /\ reqs[r].pc = "save"
  /\ LET q == reqs[r]
     IN IF q.user.id \in DOMAIN users
        THEN /\ users' = SaveUser(q.user)
             /\ reqs' = [reqs EXCEPT ![r] = [q EXCEPT !.pc = "unlink",
                                                      !.raced = (users[q.user.id] # q.loaded)]]
        ELSE /\ users' = users
             /\ reqs' = [reqs EXCEPT ![r] = Answer(q, 500)]
  /\ UNCHANGED <<admins, files, tokens, now, nextId, sent, server, script, runs, okRuns>>

\* the file of imagePath is removed if it exists; res.json(...)
DeleteImageUnlink(r) ==
  /\ reqs[r].kind = "deleteImage" /\ reqs[r].pc = "unlink"
  /\ files' = Unlink(files, {reqs[r].imagePath})
  /\ reqs' = [reqs EXCEPT ![r] = Answer(@, 200)]
  /\ UNCHANGED <<users, admins, tokens, now, nextId, sent, server, script, runs, okRuns>>

\* DELETE /api/users/:id/social-handles : findById, 404, filter
DeleteHandleFind(r) ==
  /\ reqs[r].kind = "deleteHandle" /\ reqs[r].pc = "handler"
  /\ LET q == reqs[r]
         user == UserById(q.id)
     IN reqs' = [reqs EXCEPT ![r] =
                   IF user.id = 0
                   THEN Answer(q, 404)
                   ELSE [q EXCEPT !.pc = "save", !.loaded = user,
                           !.user = [user EXCEPT !.socialHandles =
                                       SelectSeq(@, LAMBDA h : h.platform # q.platform)]]]
  /\ UNCHANGED <<users, admins, files, tokens, now, nextId, sent, server, script, runs, okRuns>>

\* await user.save(); res.json(...) -- or the catch: 500
DeleteHandleSave(r) ==
  /\ reqs[r].kind = "deleteHandle" /\ reqs[r].pc = "save"
  /\ LET q == reqs[r]
     IN IF q.user.id \in DOMAIN users
        THEN /\ users' = SaveUser(q.user)
             /\ reqs' = [reqs EXCEPT ![r] = Answer([q EXCEPT !.raced = (users[q.user.id] # q.loaded)], 200)]
        ELSE /\ users' = users
             /\ reqs' = [reqs EXCEPT ![r] = Answer(q, 500)]
  /\ UNCHANGED <<admins, files, tokens, now, nextId, sent, server, script, runs, okRuns>>

\* time passes
Tick ==
  /\ now < MaxClock
  /\ now' = now + 1
  /\ UNCHANGED <<users, admins, files, tokens, nextId, reqs, sent, server, script, runs, okRuns>>

(***************************************************************************)
(* The data routes on a system that is up: the default Admin exists, two   *)
(* users have registered, and all three have logged in.                    *)
(***************************************************************************)
(***************************************************************************)
(* POST /api/users/register.                                               *)
(***************************************************************************)
\* the unique index on email rejects the insert (models/User.js)
EmailTaken(e) == UsersByEmail(e) # {}
\* the pre-save hook hashes the password (models/User.js)
HashOnSave(doc) == [doc EXCEPT !.password = Hash(doc.password.of)]
\* new User({ email, password, name, socialHandles: [], images: [] })
NewUser(id, email, password, name) ==
  [NoDoc EXCEPT !.id = id, !.email = email, !.password = Plain(password), !.name = name]

\* findOne({ email }); 400 if it exists; else the document is constructed
Register(r, email, password, name) ==
  /\ Accept(r)
  /\ sent' = sent + 1
  /\ LET req == [IdleReq EXCEPT !.kind = "register", !.email = email,
                                !.password = password, !.name = name,
                                !.afterBoot = BootOk]
     IN IF UsersByEmail(email) # {}
        THEN /\ reqs' = [reqs EXCEPT ![r] = Answer([req EXCEPT !.dup = "lookup"], 400)]
             /\ nextId' = nextId
        ELSE /\ nextId <= MaxId
             /\ reqs' = [reqs EXCEPT ![r] =
                           [req EXCEPT !.pc = "save",
                                       !.user = NewUser(nextId, email, password, name)]]
             /\ nextId' = nextId + 1
  /\ UNCHANGED <<users, admins, files, tokens, now, server, script, runs, okRuns>>

\* await user.save(); res.status(201) -- or the catch: 400
RegisterSaveStatusNoAwait(saved) == 201
RegisterSaveStatus(saved) == IF saved THEN 201 ELSE 400

RegisterSave(r) ==
  /\ reqs[r].kind = "register" /\ reqs[r].pc = "save"
  /\ LET q == reqs[r]
         saved == ~EmailTaken(q.email)
     IN /\ users' = IF saved THEN users @@ (q.user.id :> HashOnSave(q.user)) ELSE users
        /\ reqs' = [reqs EXCEPT ![r] =
                      Answer([q EXCEPT !.dup = IF saved THEN "" ELSE "save"],
                             RegisterSaveStatus(saved))]
  /\ UNCHANGED <<admins, files, tokens, now, nextId, sent, server, script, runs, okRuns>>

(***************************************************************************)
(* POST /api/users/login and POST /api/admin/login.                        *)
(***************************************************************************)
UserLogin(r, email, password) ==
  /\ Accept(r)
  /\ sent' = sent + 1
  /\ LET req == [IdleReq EXCEPT !.kind = "userLogin", !.email = email,
                                !.password = password, !.afterBoot = BootOk]
     IN \/ /\ UsersByEmail(email) = {}
           /\ tokens' = tokens
           /\ reqs' = [reqs EXCEPT ![r] = Answer(req, 401)]
        \/ \E i \in UsersByEmail(email) :
             IF Compare(password, users[i].password)
             THEN /\ tokens' = tokens \cup {SignUser(users[i])}
                  /\ reqs' = [reqs EXCEPT ![r] = Answer(req, 200)]
             ELSE /\ tokens' = tokens
                  /\ reqs' = [reqs EXCEPT ![r] = Answer(req, 401)]
  /\ UNCHANGED <<users, admins, files, now, nextId, server, script, runs, okRuns>>

AdminLogin(r, username, password) ==
  /\ Accept(r)
  /\ sent' = sent + 1
  /\ LET req == [IdleReq EXCEPT !.kind = "adminLogin", !.email = username,
                                !.password = password, !.afterBoot = BootOk]
     IN \/ /\ AdminsByUsername(username) = {}
           /\ tokens' = tokens
           /\ reqs' = [reqs EXCEPT ![r] = Answer(req, 401)]
        \/ \E i \in AdminsByUsername(username) :
             IF Compare(password, admins[i].password)
             THEN /\ tokens' = tokens \cup {SignAdmin(admins[i])}
                  /\ reqs' = [reqs EXCEPT ![r] = Answer(req, 200)]
             ELSE /\ tokens' = tokens
                  /\ reqs' = [reqs EXCEPT ![r] = Answer(req, 401)]
  /\ UNCHANGED <<users, admins, files, now, nextId, server, script, runs, okRuns>>

(***************************************************************************)
(* Bootstrap: initializeAdmin of the server, and the initAdmin script.     *)
(***************************************************************************)
\* the unique index on username rejects the insert (models/Admin.js)
UsernameTaken(n) == AdminsByUsername(n) # {}

\* new Admin({ username: 'admin@gmail.com', password: hashedPassword })
NewServerAdminTypo(id) ==
  [id |-> id, username |-> "admin", password |-> Hash(DefaultPassword)]
NewServerAdmin(id) ==
  [id |-> id, username |-> WellKnownUsername, password |-> Hash(DefaultPassword)]

\* new Admin({ username: 'admin@gmail.com', password: 'admin' })
NewScriptAdmin(id) ==
  [id |-> id, username |-> WellKnownUsername, password |-> Plain(DefaultPassword)]

\* admin.save(): an insert, refused by the unique index
InsertAdmin(doc) ==
  IF UsernameTaken(doc.username) THEN admins ELSE admins @@ (doc.id :> doc)

\* index.js: findOne({ username: 'admin@gmail.com' }); listen if it exists
ServerInitLookup ==
  /\ server = "boot"
  /\ IF AdminsByUsername(WellKnownUsername) # {}
     THEN server' = "up" /\ okRuns' = okRuns + 1 /\ nextId' = nextId
     ELSE nextId <= MaxId /\ server' = "create" /\ okRuns' = okRuns /\ nextId' = nextId + 1
  /\ UNCHANGED <<users, admins, files, tokens, now, reqs, sent, script, runs>>

\* index.js: await admin.save(); an error is logged; then app.listen
ServerInitSave ==
  /\ server = "create"
  /\ LET doc == NewServerAdmin(nextId - 1)
     IN /\ admins' = InsertAdmin(doc)
        /\ okRuns' = IF UsernameTaken(doc.username) THEN okRuns ELSE okRuns + 1
  /\ server' = "up"
  /\ UNCHANGED <<users, files, tokens, now, nextId, reqs, sent, script, runs>>

\* the server process is stopped and started again: requests in flight are lost
ServerRestart ==
  /\ server = "up" /\ runs < MaxRuns
  /\ server' = "boot"
  /\ runs' = runs + 1
  /\ reqs' = [r \in Slots |-> IF Free(r) THEN reqs[r] ELSE IdleReq]
  /\ UNCHANGED <<users, admins, files, tokens, now, nextId, sent, script, okRuns>>

\* initAdmin.js: connect; findOne({ username: 'admin@gmail.com' })
ScriptLookup ==
  /\ script = "idle" /\ runs < MaxRuns
  /\ runs' = runs + 1
  /\ IF AdminsByUsername(WellKnownUsername) # {}
     THEN script' = "idle" /\ okRuns' = okRuns + 1 /\ nextId' = nextId
     ELSE nextId <= MaxId /\ script' = "create" /\ okRuns' = okRuns /\ nextId' = nextId + 1
  /\ UNCHANGED <<users, admins, files, tokens, now, reqs, sent, server>>

\* initAdmin.js: await admin.save(); an error ends the process with status 1
ScriptSave ==
  /\ script = "create"
  /\ LET doc == NewScriptAdmin(nextId - 1)
     IN /\ admins' = InsertAdmin(doc)
        /\ okRuns' = IF UsernameTaken(doc.username) THEN okRuns ELSE okRuns + 1
  /\ script' = "idle"
  /\ UNCHANGED <<users, files, tokens, now, nextId, reqs, sent, server, runs>>

\* the files of one upload request, by extension
UploadInputs ==
  UNION {[1..n -> Exts] : n \in 0..MaxFiles}

UserTokens == {t \in tokens : t.by = "user"}
AdminTokens == {t \in tokens : t.by = "admin"}

InitData ==
  /\ admins = (1 :> NewServerAdmin(1))
  /\ users = (2 :> HashOnSave(NewUser(2, WellKnownUsername, "secret", "Ann")))
          @@ (3 :> HashOnSave(NewUser(3, "bob@example.com", "secret", "Bob")))
  /\ tokens = {SignAdmin(admins[1]), SignUser(users[2]), SignUser(users[3])}
  /\ files = {}
  /\ now = 1
  /\ nextId = 4
  /\ reqs = [r \in Slots |-> IdleReq]
  /\ sent = 0
  /\ server = "up"
  /\ script = "idle"
  /\ runs = 1
  /\ okRuns = 1

(***************************************************************************)
(* SpecProfile: uploads of social handles and their deletion by the Admin, *)
(* within one tick of the clock (no file is named here).                   *)
(***************************************************************************)
NextProfile ==
  \/ \E r \in Slots, tok \in UserTokens, ph \in Platforms \X Handles :
       UserGate(r, tok, <<>>, ph[1], ph[2])
  \/ \E r \in Slots : \E ts \in Stamps(Len(reqs[r].exts)) : UploadHandler(r, ts)
  \/ \E r \in Slots : UploadSave(r)
  \/ \E r \in Slots, tok \in AdminTokens, id \in DOMAIN users, p \in Platforms :
       AdminGate(r, tok, "deleteHandle", id, p, <<>>)
  \/ \E r \in Slots : DeleteHandleFind(r)
  \/ \E r \in Slots : DeleteHandleSave(r)

SpecProfile == InitData /\ [][NextProfile]_vars

(***************************************************************************)
(* SpecFiles: uploads of images and the deletion of images and users.      *)
(***************************************************************************)
NextFiles ==
  \/ \E r \in Slots, tok \in UserTokens, exts \in UploadInputs :
       UserGate(r, tok, exts, "", "")
  \/ \E r \in Slots : \E ts \in Stamps(Len(reqs[r].exts)) : UploadHandler(r, ts)
  \/ \E r \in Slots : UploadSave(r)
  \/ \E r \in Slots, tok \in AdminTokens, id \in DOMAIN users \cup {nextId} :
       \/ AdminGate(r, tok, "deleteUser", id, "", <<>>)
       \/ \E path \in KnownPaths : AdminGate(r, tok, "deleteImage", id, "", path)
  \/ \E r \in Slots : DeleteUserFind(r)
  \/ \E r \in Slots : DeleteUserDelete(r)
  \/ \E r \in Slots : DeleteImageFind(r)
  \/ \E r \in Slots : DeleteImageSave(r)
  \/ \E r \in Slots : DeleteImageUnlink(r)
  \/ Tick

SpecFiles == InitData /\ [][NextFiles]_vars

(***************************************************************************)
(* SpecDelete: uploads of .png images and the deletion of users.           *)
(***************************************************************************)
PngInputs == {exts \in UploadInputs : \A i \in 1..Len(exts) : exts[i] = ".png"}

NextDelete ==
  \/ \E r \in Slots, tok \in UserTokens, exts \in PngInputs :
       UserGate(r, tok, exts, "", "")
  \/ \E r \in Slots : \E ts \in Stamps(Len(reqs[r].exts)) : UploadHandler(r, ts)
  \/ \E r \in Slots : UploadSave(r)
  \/ \E r \in Slots, tok \in AdminTokens, id \in DOMAIN users \cup {nextId} :
       AdminGate(r, tok, "deleteUser", id, "", <<>>)
  \/ \E r \in Slots : DeleteUserFind(r)
  \/ \E r \in Slots : DeleteUserDelete(r)
  \/ Tick

SpecDelete == InitData /\ [][NextDelete]_vars

(***************************************************************************)
(* SpecBoot: the two bootstrap paths on an empty database, server restarts *)
(* and Admin logins.                                                       *)
(***************************************************************************)
InitBoot ==
  /\ admins = <<>>
  /\ users = <<>>
  /\ tokens = {}
  /\ files = {}
  /\ now = 1
  /\ nextId = 1
  /\ reqs = [r \in Slots |-> IdleReq]
  /\ sent = 0
  /\ server = "boot"
  /\ script = "idle"
  /\ runs = 1
  /\ okRuns = 0

NextBoot ==
  \/ ServerInitLookup
  \/ ServerInitSave
  \/ ServerRestart
  \/ ScriptLookup
  \/ ScriptSave
  \/ \E r \in Slots, n \in Emails, p \in Passwords : AdminLogin(r, n, p)

SpecBoot == InitBoot /\ [][NextBoot]_vars

(***************************************************************************)
(* SpecAuth: registration, the two logins and the two gates in front of    *)
(* every route, on a server that has bootstrapped, with one registered     *)
(* user; the Admin and the user have logged in once.                       *)
(***************************************************************************)
InitAuth ==
  /\ admins = (1 :> NewServerAdmin(1))
  /\ users = (2 :> HashOnSave(NewUser(2, WellKnownUsername, "secret", "Ann")))
  /\ tokens = {SignAdmin(admins[1]), SignUser(users[2])}
  /\ files = {}
  /\ now = 1
  /\ nextId = 3
  /\ reqs = [r \in Slots |-> IdleReq]
  /\ sent = 0
  /\ server = "up"
  /\ script = "idle"
  /\ runs = 1
  /\ okRuns = 1

NextAuth ==
  \/ \E r \in Slots, e \in Emails, p \in Passwords, n \in Names : Register(r, e, p, n)
  \/ \E r \in Slots : RegisterSave(r)
  \/ \E r \in Slots, e \in Emails, p \in Passwords : UserLogin(r, e, p)
  \/ \E r \in Slots, n \in Emails, p \in Passwords : AdminLogin(r, n, p)
  \/ \E r \in Slots, tok \in tokens \cup {NoToken} : UserGate(r, tok, <<>>, "twitter", "a")
  \/ \E r \in Slots : \E ts \in Stamps(Len(reqs[r].exts)) : UploadHandler(r, ts)
  \/ \E r \in Slots : UploadSave(r)
  \/ \E r \in Slots, tok \in tokens \cup {NoToken}, route \in AdminRoutes,
        id \in DOMAIN users :
       AdminGate(r, tok, route, id, "twitter", OutsidePath)
  \/ \E r \in Slots : ListUsers(r)
  \/ \E r \in Slots : DeleteUserFind(r)
  \/ \E r \in Slots : DeleteUserDelete(r)
  \/ \E r \in Slots : DeleteImageFind(r)
  \/ \E r \in Slots : DeleteImageSave(r)
  \/ \E r \in Slots : DeleteImageUnlink(r)
  \/ \E r \in Slots : DeleteHandleFind(r)
  \/ \E r \in Slots : DeleteHandleSave(r)

SpecAuth == InitAuth /\ [][NextAuth]_vars

(***************************************************************************)
(* Properties of the social handles (SpecProfile).                         *)
(***************************************************************************)
IsUpload(q) == q.kind = "upload"
WithHandle(q) == q.platform # "" /\ q.handle # ""
PlatformCount(hs, p) == Cardinality({i \in 1..Len(hs) : hs[i].platform = p})
OtherPlatforms(hs, p) == SelectSeq(hs, LAMBDA e : e.platform # p)

\* C1: in every reachable state no User holds two socialHandles entries with
\* the same platform, whatever uploads and social-handle deletions have run
\* and however their steps on one user interleaved.
C1_OnePerPlatform ==
  \A i \in DOMAIN users : \A p \in Platforms :
    PlatformCount(users[i].socialHandles, p) <= 1

\* an upload whose save found the stored document changed since its gate
\* loaded it left the user with two handles
C1_Witness ==
  \E r \in Slots :
    /\ IsUpload(reqs[r]) /\ reqs[r].pc = "done" /\ reqs[r].status = 201
    /\ reqs[r].raced
    /\ Len(UserById(reqs[r].tok.id).socialHandles) = 2

\* C2: the upload handler's upsert, from the document as loaded (L) to the
\* document it saves (M): M holds exactly one entry for the platform, with the
\* handle of the request; if L had an entry for the platform, it is at the
\* same position and every other position is unchanged; otherwise M is L with
\* the new entry appended at the end.
C2_Upsert ==
  \A r \in Slots :
    (IsUpload(reqs[r]) /\ reqs[r].pc = "save" /\ WithHandle(reqs[r])) =>
      LET L == reqs[r].loaded.socialHandles
          M == reqs[r].user.socialHandles
          p == reqs[r].platform
      IN /\ PlatformCount(M, p) = 1
         /\ \A i \in 1..Len(M) : M[i].platform = p => M[i].handle = reqs[r].handle
         /\ IF \E i \in 1..Len(L) : L[i].platform = p
            THEN /\ Len(M) = Len(L)
                 /\ \A i \in 1..Len(L) :
                      IF L[i].platform = p THEN M[i].platform = p ELSE M[i] = L[i]
            ELSE /\ Len(M) = Len(L) + 1
                 /\ M[Len(M)].platform = p
                 /\ SubSeq(M, 1, Len(L)) = L

\* a second upload for a platform overwrote, at position 2, another handle
C2_Witness ==
  \E r \in Slots :
    /\ IsUpload(reqs[r]) /\ reqs[r].pc = "save" /\ WithHandle(reqs[r])
    /\ Len(reqs[r].loaded.socialHandles) = 2
    /\ reqs[r].loaded.socialHandles[2].platform = reqs[r].platform
    /\ reqs[r].loaded.socialHandles[2].handle # reqs[r].handle
    /\ reqs[r].user.socialHandles[2].handle = reqs[r].handle

\* C9: an upload answered 201 has written its own copy: the stored document
\* is then the document its gate loaded with the change of this request
\* alone, so whatever another request stored in between is overwritten.
C9_LastWriterWins ==
  [][\A r \in Slots :
       (IsUpload(reqs[r]) /\ reqs[r].pc = "save" /\ reqs'[r].pc = "done"
          /\ reqs'[r].status = 201) =>
         LET id == reqs[r].tok.id
         IN /\ users'[id].images = reqs[r].loaded.images \o reqs[r].newImages
            /\ OtherPlatforms(users'[id].socialHandles, reqs[r].platform)
                 = OtherPlatforms(reqs[r].loaded.socialHandles, reqs[r].platform)]_vars

\* two uploads by one user for two platforms, both answered 201 and no other
\* request received: the stored document lacks the handle of one of them
C9_Witness ==
  /\ sent = 2
  /\ \E r1, r2 \in Slots :
       /\ r1 # r2
       /\ IsUpload(reqs[r1]) /\ reqs[r1].pc = "done" /\ reqs[r1].status = 201
       /\ IsUpload(reqs[r2]) /\ reqs[r2].pc = "done" /\ reqs[r2].status = 201
       /\ reqs[r1].tok = reqs[r2].tok
       /\ reqs[r2].raced
       /\ PlatformCount(users[reqs[r1].tok.id].socialHandles, reqs[r1].platform) = 0
       /\ PlatformCount(users[reqs[r1].tok.id].socialHandles, reqs[r2].platform) = 1

(***************************************************************************)
(* Properties of the images and their files (SpecFiles).                   *)
(***************************************************************************)
Quiet == \A r \in Slots : Free(r)

\* C3: the url values of the entries of a user's images sequence are
\* pairwise distinct, whatever the clock returned when the names were made.
C3_DistinctUrls ==
  \A i \in DOMAIN users :
    \A a, b \in 1..Len(users[i].images) :
      a # b => users[i].images[a].url # users[i].images[b].url

\* C4: when no request is in flight, every entry of every user's images
\* sequence refers to a file that exists in the uploads directory.
C4_ImagesHaveFiles ==
  Quiet =>
    \A i \in DOMAIN users : \A u \in ImageUrls(users[i]) :
      InUploads(u) /\ FileOf(u) \in files

UniqueEmails ==
  \A i, j \in DOMAIN users : users[i].email = users[j].email => i = j

\* C6: a register request that meets its email in the User collection, at
\* its lookup or at its save, answers 400 and leaves the collection
\* unchanged; no step leaves two User records with one email.
C6_DuplicateEmail ==
  [][/\ \A r \in Slots :
          /\ (sent' = sent + 1 /\ reqs'[r] # reqs[r] /\ reqs'[r].kind = "register"
                /\ EmailTaken(reqs'[r].email)) =>
               /\ reqs'[r].pc = "done" /\ reqs'[r].status = 400
               /\ users' = users
          /\ (reqs[r].kind = "register" /\ reqs[r].pc = "save"
                /\ reqs'[r].pc = "done" /\ EmailTaken(reqs[r].email)) =>
               /\ reqs'[r].status = 400
               /\ users' = users
     /\ UniqueEmails']_vars

\* a register request whose lookup found the email free and whose save met
\* it taken by another request: 400, and one record holds the email
C6_Witness ==
  \E r \in Slots :
    /\ reqs[r].kind = "register" /\ reqs[r].pc = "done"
    /\ reqs[r].status = 400 /\ reqs[r].dup = "save"
    /\ Cardinality(UsersByEmail(reqs[r].email)) = 1

PastGate(q) ==
  q.kind \in AdminRoutes \cup {"upload"} /\ ~(q.pc = "done" /\ q.status = 401)

GatesHold ==
  \A r \in Slots :
    PastGate(reqs[r]) =>
      /\ reqs[r].kind \in AdminRoutes => reqs[r].tok.by = "admin"
      /\ IsUpload(reqs[r]) =>
           /\ reqs[r].tok.by = "user"
           /\ reqs[r].pc # "done" => reqs[r].user.id = reqs[r].tok.who

\* C7: a request is past the admin gate only with a token of admin login, and
\* past the user gate only with a token of user login, its handler working on
\* the User who logged in; the save of an upload changes no other User.
C7_TokenKinds ==
  [][/\ GatesHold'
     /\ \A r \in Slots :
          (IsUpload(reqs[r]) /\ reqs[r].pc = "save" /\ reqs'[r].pc = "done") =>
            \A i \in DOMAIN users :
              i # reqs[r].tok.who => (i \in DOMAIN users' /\ users'[i] = users[i])]_vars

\* a user token was refused by the admin gate and unlocked an upload
C7_Witness ==
  \E r1, r2 \in Slots :
    /\ reqs[r1].kind \in AdminRoutes /\ reqs[r1].pc = "done"
    /\ reqs[r1].status = 401 /\ reqs[r1].tok.by = "user"
    /\ IsUpload(reqs[r2]) /\ reqs[r2].pc = "done" /\ reqs[r2].status = 201
    /\ reqs[r2].tok = reqs[r1].tok

(***************************************************************************)
(* Properties of the bootstrap (SpecBoot).                                 *)
(***************************************************************************)
\* C8: once a bootstrap run has completed without error, no later step of
\* either bootstrap path creates or changes an Admin record, and exactly one
\* Admin record holds the well-known username.
C8_BootIdempotent ==
  [][/\ BootOk => admins' = admins
     /\ BootOk' => Cardinality(AdminsByUsername(WellKnownUsername)') = 1]_vars

\* three bootstrap runs have completed, the server listens, one Admin exists
C8_Witness ==
  /\ okRuns >= 3
  /\ server = "up" /\ script = "idle"
  /\ Cardinality(DOMAIN admins) = 1

\* C10: an Admin login with the well-known username and the default password,
\* received after a bootstrap run has completed without error, answers 200.
C10_DefaultLogin ==
  \A r \in Slots :
    (reqs[r].kind = "adminLogin" /\ reqs[r].pc = "done" /\ reqs[r].afterBoot
       /\ reqs[r].email = WellKnownUsername /\ reqs[r].password = DefaultPassword)
      => reqs[r].status = 200

====
